---- MODULE Spec2Model ----
(***************************************************************************)
(* A model of conndebug's cobra front end (package internal/cmd):         *)
(*   - the http operation: PreRunE validate, cobra's flag-group checks,    *)
(*     RunE run (buildClient, openBody, buildRequest, client.Do, response  *)
(*     reporting, writeOutput), with the files, the network and the        *)
(*     client timeout as the environment;                                  *)
(*   - the httptrace operation: the ClientTrace callbacks and logWithDelta *)
(*     as they are called from the transport's goroutines.                 *)
(* Strings the code inspects character by character are tuples of          *)
(* one-character strings; paths and payloads the code only passes on are   *)
(* TLA+ strings.                                                           *)
(***************************************************************************)
EXTENDS Integers, Sequences, FiniteSets, TLC

VARIABLES
    cmd,        \* httpCommand: the flag fields, and "changed" (pflag's Flag.Changed)
    url,        \* cmd.url: the parsed URL (its scheme), "" before parseURL
    headers,    \* cmd.headers: sequence of <<name, value>> in insertion order
    cookieJar,  \* cmd.cookieJar: the cookies set on the jar, "nil" before parseCookies
    pc,         \* position of the http operation
    errs,       \* the errors the operation returned (cobra reports each)
    io,         \* the I/O the operation performed, in order
    res,        \* scoped resources: body, resp, file |-> "none" | "open" | "closed" | "badclose"
    defers,     \* deferred Close calls of run, most recent first
    client,     \* the *http.Client built by buildClient, "nil" before
    timer,      \* Client.Timeout's timer: "off" | "running" | "expired"
    net,        \* client.Do: [phase, sent, redirects, dials]
    resp,       \* the response run holds: "nil" or [tls, body]
    copied,     \* number of body chunks io.Copy has read from resp.Body
    stderr,     \* what was written to os.Stderr, in order
    stdout,     \* the body chunks written to os.Stdout, in order
    outfile,    \* the file at cmd.OutputFile: [exists, content], and whether it
                \* existed before the run
    gor,        \* httptrace: per goroutine of the transport, the logWithDelta call
                \* it is in: [step, delta, msg], step 0 when in none
    clock,      \* httptrace: milliseconds since start
    out,        \* httptrace: what the fmt.Print calls wrote to os.Stdout, in order
    traceNet,   \* httptrace: the command's URL and what the transport has done
    sched,      \* httptrace: the goroutine that ran last, and how often a goroutine
                \* inside logWithDelta was preempted by another
    reach,      \* reachable: the command's Address and how far it got:
                \* [pc, Address, err, dialed, conn, out]
    tlsLog      \* logTLSState: the connection state it renders, the index of
                \* its loop and what it logged: [pc, state, short, i, log]

vars == <<cmd, url, headers, cookieJar, pc, errs, io, res, defers, client, timer,
          net, resp, copied, stderr, stdout, outfile, gor, clock, out, traceNet, sched,
          reach, tlsLog>>

httpVars == <<cmd, url, headers, cookieJar, pc, errs, io, res, defers, client, timer,
              net, resp, copied, stderr, stdout, outfile>>

traceVars == <<gor, clock, out, traceNet, sched>>

----------------------------------------------------------------------------
(* Bounds *)

\* flags given on one command line
MaxFlags == 2
\* chunks of the response body
MaxBody == 2
\* redirects a server chain serves before its final response
MaxRedirects == 2
\* milliseconds that pass during one trace
MaxClock == 1
\* times the scheduler takes the processor from a goroutine inside logWithDelta
MaxPreempt == 1
\* --header flags on a command line that is about its headers
MaxHeaders == 2
\* characters of the address given to reachable
MaxAddr == 4
\* certificates in the peer chain logTLSState renders
MaxChain == 4

----------------------------------------------------------------------------
(* Character strings *)

Lower == {"a", "c", "d", "e", "f", "g", "h", "i", "l", "n", "o", "p", "s", "t", "u", "x", "y"}

ToUpperChar(c) ==
    CASE c = "a" -> "A" [] c = "c" -> "C" [] c = "d" -> "D" [] c = "e" -> "E"
      [] c = "f" -> "F" [] c = "g" -> "G" [] c = "h" -> "H" [] c = "i" -> "I"
      [] c = "l" -> "L" [] c = "n" -> "N" [] c = "o" -> "O" [] c = "p" -> "P"
      [] c = "s" -> "S" [] c = "t" -> "T" [] c = "u" -> "U" [] c = "x" -> "X"
      [] c = "y" -> "Y"
      [] OTHER -> c

ToLowerChar(c) ==
    CASE c = "A" -> "a" [] c = "C" -> "c" [] c = "D" -> "d" [] c = "E" -> "e"
      [] c = "F" -> "f" [] c = "G" -> "g" [] c = "H" -> "h" [] c = "I" -> "i"
      [] c = "L" -> "l" [] c = "N" -> "n" [] c = "O" -> "o" [] c = "P" -> "p"
      [] c = "S" -> "s" [] c = "T" -> "t" [] c = "U" -> "u" [] c = "X" -> "x"
      [] c = "Y" -> "y"
      [] OTHER -> c

Upper == {ToUpperChar(c) : c \in Lower}

Digits == {"0", "1"}

ToUpper(s) == [i \in 1..Len(s) |-> ToUpperChar(s[i])]

ToLower(s) == [i \in 1..Len(s) |-> ToLowerChar(s[i])]

\* index of the first occurrence of character d in s, 0 when there is none
Index(s, d) ==
    IF \E i \in 1..Len(s) : s[i] = d
    THEN CHOOSE i \in 1..Len(s) : s[i] = d /\ \A j \in 1..(i - 1) : s[j] # d
    ELSE 0

\* strings.SplitN(s, d, 2): at most two parts, cut at the first d
SplitN2(s, d) ==
    IF Index(s, d) = 0 THEN <<s>>
    ELSE <<SubSeq(s, 1, Index(s, d) - 1), SubSeq(s, Index(s, d) + 1, Len(s))>>

IsSpace(c) == c \in {" ", "\t"}

RECURSIVE TrimLeft(_)
TrimLeft(s) == IF s # <<>> /\ IsSpace(Head(s)) THEN TrimLeft(Tail(s)) ELSE s

RECURSIVE TrimRight(_)
TrimRight(s) ==
    IF s # <<>> /\ IsSpace(s[Len(s)]) THEN TrimRight(SubSeq(s, 1, Len(s) - 1)) ELSE s

\* strings.TrimSpace
TrimSpace(s) == TrimRight(TrimLeft(s))

----------------------------------------------------------------------------
(* net/url, net/http and textproto, as far as validate depends on them *)

\* url.getScheme: the scheme in front of the first ':', "" when the string has
\* none, and an error when the string starts with ':'
RECURSIVE getScheme(_, _)
getScheme(s, i) ==
    IF i > Len(s) THEN [scheme |-> <<>>, err |-> FALSE]
    ELSE IF s[i] \in Lower \cup Upper THEN getScheme(s, i + 1)
    ELSE IF s[i] \in Digits \cup {"+", "-", "."}
         THEN IF i = 1 THEN [scheme |-> <<>>, err |-> FALSE] ELSE getScheme(s, i + 1)
    ELSE IF s[i] = ":"
         THEN IF i = 1 THEN [scheme |-> <<>>, err |-> TRUE]
              ELSE [scheme |-> SubSeq(s, 1, i - 1), err |-> FALSE]
    ELSE [scheme |-> <<>>, err |-> FALSE]

\* url.Parse: the scheme is lower-cased
urlParse(s) ==
    [Scheme |-> ToLower(getScheme(s, 1).scheme), err |-> getScheme(s, 1).err]

IsTokenChar(c) == c \in Lower \cup Upper \cup Digits \cup {"-"}

\* textproto.CanonicalMIMEHeaderKey: a key holding a byte that is not a token
\* byte is returned unchanged; otherwise the first letter and every letter
\* after a '-' is upper-cased and the others lower-cased
CanonicalMIMEHeaderKey(k) ==
    IF \E i \in 1..Len(k) : ~IsTokenChar(k[i]) THEN k
    ELSE [i \in 1..Len(k) |->
            IF i = 1 \/ k[i - 1] = "-" THEN ToUpperChar(k[i]) ELSE ToLowerChar(k[i])]

\* http.Header.Add: appends the value to the values of the canonical key
HeaderAdd(h, k, v) == Append(h, <<CanonicalMIMEHeaderKey(k), v>>)

\* the values stored under a key, in order
HeaderValues(h, k) ==
    LET idx == {i \in 1..Len(h) : h[i][1] = k}
        RECURSIVE Collect(_)
        Collect(i) ==
            IF i > Len(h) THEN <<>>
            ELSE IF i \in idx THEN <<h[i][2]>> \o Collect(i + 1) ELSE Collect(i + 1)
    IN  Collect(1)

\* http.Header.Get: the first value of the canonical key, "" when there is none
HeaderGet(h, k) ==
    IF HeaderValues(h, CanonicalMIMEHeaderKey(k)) = <<>> THEN <<>>
    ELSE Head(HeaderValues(h, CanonicalMIMEHeaderKey(k)))

\* http.Header.Set: replaces the values of the canonical key by the one value
HeaderSet(h, k, v) ==
    LET ck == CanonicalMIMEHeaderKey(k)
        RECURSIVE Drop(_)
        Drop(i) ==
            IF i > Len(h) THEN <<>>
            ELSE IF h[i][1] = ck THEN Drop(i + 1) ELSE <<h[i]>> \o Drop(i + 1)
    IN  Append(Drop(1), <<ck, v>>)

\* http.ParseCookie on one "name=value" string: an error without '=' or with
\* an empty name
ParseCookie(c) ==
    IF Index(c, "=") = 0 \/ TrimSpace(SplitN2(c, "=")[1]) = <<>>
    THEN [err |-> TRUE, cookie |-> <<>>]
    ELSE [err |-> FALSE, cookie |-> <<TrimSpace(SplitN2(c, "=")[1]), SplitN2(c, "=")[2]>>]

----------------------------------------------------------------------------
(* Constants of the http command *)

headerDelimiter == ":"

cookieDelimiter == "="

contentTypeHeader == <<"C", "o", "n", "t", "e", "n", "t", "-", "T", "y", "p", "e">>

defaultContentType == <<"t", "e", "x", "t", "/", "p", "l", "a", "i", "n">>

MethodGet == <<"G", "E", "T">>
MethodHead == <<"H", "E", "A", "D">>
MethodPut == <<"P", "U", "T">>
MethodPost == <<"P", "O", "S", "T">>
MethodPatch == <<"P", "A", "T", "C", "H">>
MethodDelete == <<"D", "E", "L", "E", "T", "E">>

supportedMethods == {MethodGet, MethodHead, MethodPut, MethodPost, MethodPatch, MethodDelete}

----------------------------------------------------------------------------
(* The command lines considered *)

Flags == {"method", "header", "cookie", "timeout", "data", "data-file", "root-cert",
          "cert", "key", "print-status", "print-tls", "print-headers", "output"}

URLs == { <<"h", "t", "t", "p", "s", ":", "/", "/", "h">>,
          <<"h", "t", "t", "p", ":", "/", "/", "h">>,
          <<"f", "t", "p", ":", "/", "/", "h">>,
          <<"h">>,
          <<":", "h">> }

\* the value a flag has when it is not given (NewHTTPCommand)
FlagDefault(f) ==
    CASE f = "method" -> MethodGet
      [] f \in {"header", "cookie"} -> <<>>
      [] f = "timeout" -> 0
      [] f \in {"print-status", "print-tls", "print-headers"} -> FALSE
      [] OTHER -> ""

\* the values a flag is given
FlagValues(f) ==
    CASE f = "method" -> << <<"g", "e", "t">>, <<"T", "R", "A", "C", "E">>,
                            <<"P", "o", "s", "t">>, <<>> >>
      [] f = "header" -> << << <<"X", "-", "T", "e", "s", "t", ":", " ", "1">> >>,
                            << <<"X", "-", "T", "e", "s", "t">> >> >>
      [] f = "cookie" -> << << <<"a", "=", "1">> >>, << <<"a">> >> >>
      [] f = "timeout" -> <<1>>
      [] f = "data" -> <<"", "d">>
      [] f = "data-file" -> <<"", "-", "f">>
      [] f = "root-cert" -> <<"ca.pem">>
      [] f = "cert" -> <<"", "c.pem">>
      [] f = "key" -> <<"", "k.pem">>
      [] f = "output" -> <<"out">>
      [] OTHER -> <<TRUE>>

FlagValue(f, S, v) == IF f \in S THEN FlagValues(f)[v[f]] ELSE FlagDefault(f)

\* the httpCommand after pflag has parsed a command line giving the flags S
\* with the values chosen by v, and the argument u
ParsedCommand(u, S, v) ==
    [ changed           |-> S,
      arg               |-> u,
      method            |-> FlagValue("method", S, v),
      URL               |-> <<>>,
      Method            |-> FlagValue("method", S, v),
      Headers           |-> FlagValue("header", S, v),
      Cookies           |-> FlagValue("cookie", S, v),
      Timeout           |-> FlagValue("timeout", S, v),
      DataRaw           |-> FlagValue("data", S, v),
      DataFile          |-> FlagValue("data-file", S, v),
      RootCertificate   |-> FlagValue("root-cert", S, v),
      ClientCertificate |-> FlagValue("cert", S, v),
      ClientKey         |-> FlagValue("key", S, v),
      PrintStatus       |-> FlagValue("print-status", S, v),
      PrintTLSState     |-> FlagValue("print-tls", S, v),
      PrintHeaders      |-> FlagValue("print-headers", S, v),
      OutputFile        |-> FlagValue("output", S, v) ]

CommandLines ==
    UNION { { ParsedCommand(u, S, v) :
                u \in URLs,
                v \in {w \in [S -> 1..4] : \A f \in S : w[f] <= Len(FlagValues(f))} } :
            S \in {T \in SUBSET Flags : Cardinality(T) <= MaxFlags} }

\* the strings given to --header
RawHeaders ==
    { <<"X", "-", "T", "e", "s", "t", ":", " ", "1">>,
      <<"X", "-", "T", "e", "s", "t">>,
      <<"x", "-", "t", "e", "s", "t", ":", "0">>,
      <<"X", " ", "T", ":", "\t", "a", ":", "1", " ">>,
      <<"C", "o", "n", "t", "e", "n", "t", "-", "T", "y", "p", "e", ":">>,
      <<"C", "o", "n", "t", "e", "n", "t", "-", "T", "y", "p", "e", ":", " ", "a">>,
      <<"c", "o", "n", "t", "e", "n", "t", "-", "t", "y", "p", "e", ":", "c">> }

HeaderLists == UNION { [1..n -> RawHeaders] : n \in 0..MaxHeaders }

\* command lines that give --header up to MaxHeaders times, with and without
\* a body
HeaderCommandLines ==
    { [ParsedCommand(<<"h", "t", "t", "p", ":", "/", "/", "h">>, S, [f \in S |-> 2])
         EXCEPT !.Headers = hs,
                !.changed = S \cup (IF hs = <<>> THEN {} ELSE {"header"})] :
        hs \in HeaderLists, S \in SUBSET {"data"} }

\* command lines whose URL spells the scheme in upper case
SchemeCommandLines ==
    { ParsedCommand(u, {}, <<>>) :
        u \in { <<"H", "T", "T", "P", ":", "/", "/", "h">>,
                <<"H", "t", "t", "p", "s", ":", "/", "/", "h">> } }

----------------------------------------------------------------------------
(* The http operation: state after NewHTTPCommand and flag parsing *)

\* an error value: the stage that wrapped it, its cause, and the input it names
Err(stage, cause, subject) == [stage |-> stage, cause |-> cause, subject |-> subject]

NoError == Err("", "", "")

\* what a file at cmd.OutputFile holds before the run, when there is one: bytes
\* that are no bytes of the response body
PreviousContent == <<-1, -2, -3>>

NoResources == [body |-> "none", resp |-> "none", file |-> "none"]

HTTPInit ==
    /\ cmd \in CommandLines \cup HeaderCommandLines \cup SchemeCommandLines
    /\ url = <<>>
    /\ headers = <<>>
    /\ cookieJar = [set |-> FALSE, cookies |-> <<>>]
    /\ pc = "validate"
    /\ errs = <<>>
    /\ io = <<>>
    /\ res = NoResources
    /\ defers = <<>>
    /\ client = [built |-> FALSE, Timeout |-> 0, RootCAs |-> "", Certificates |-> FALSE]
    /\ timer = "off"
    /\ net = [phase |-> "idle", sent |-> 0, redirects |-> 0, dials |-> 0]
    /\ resp = [present |-> FALSE, tls |-> FALSE, len |-> 0]
    /\ copied = 0
    /\ stderr = <<>>
    /\ stdout = <<>>
    /\ outfile \in IF cmd.OutputFile = ""
                   THEN {[existed |-> FALSE, exists |-> FALSE, content |-> <<>>]}
                   ELSE {[existed |-> FALSE, exists |-> FALSE, content |-> <<>>],
                         [existed |-> TRUE, exists |-> TRUE, content |-> PreviousContent]}

Goroutines == {"conn", "dial4", "dial6"}

Racers == {"dial4", "dial6"}

Idle == [step |-> 0, delta |-> 0, msg |-> [text |-> "", ctx |-> "", err |-> ""]]

TraceIdle ==
    /\ gor = [g \in Goroutines |-> Idle]
    /\ clock = 0
    /\ out = <<>>
    /\ traceNet = [phase |-> "off", URL |-> <<>>, https |-> FALSE, dnsErr |-> "",
                   racer |-> [r \in Racers |-> "idle"], err |-> NoError]
    /\ sched = [last |-> "", preempts |-> 0]

\* the reachable command is not running
ReachOff ==
    reach = [pc |-> "off", Address |-> <<>>, err |-> NoError, dialed |-> FALSE,
             conn |-> "none", out |-> <<>>]

\* a nil *tls.ConnectionState
NoState == [nil |-> TRUE, PeerCertificates |-> <<>>]

\* logTLSState is not running
TLSLogOff ==
    tlsLog = [pc |-> "off", state |-> NoState, short |-> FALSE, i |-> 0, log |-> <<>>]

\* Close on a resource: closing what was never acquired is recorded
Close(st) == IF st = "none" THEN "badclose" ELSE "closed"

\* a run that forgets to defer the Close
DeferCloseForgotten(d, r) == d

\* defer r.Close(): the call is pushed on the function's stack of deferred calls
DeferClose(d, r) == <<r>> \o d

\* the deferred calls run, most recent first, when the function returns
RECURSIVE RunDefers(_, _)
RunDefers(r, d) ==
    IF d = <<>> THEN r
    ELSE RunDefers([r EXCEPT ![Head(d)] = Close(r[Head(d)])], Tail(d))

\* a run that reports the error of buildClient and carries on
ReturnUnlessClient(e) ==
    /\ errs' = IF e.cause = "" THEN errs ELSE Append(errs, e)
    /\ IF pc = "buildClient"
       THEN pc' = "openBody" /\ UNCHANGED <<res, defers>>
       ELSE res' = RunDefers(res, defers) /\ defers' = <<>> /\ pc' = "done"

\* the operation returns the error e: deferred calls run, cobra reports e
Return(e) ==
    /\ errs' = IF e.cause = "" THEN errs ELSE Append(errs, e)
    /\ res' = RunDefers(res, defers)
    /\ defers' = <<>>
    /\ pc' = "done"

----------------------------------------------------------------------------
(* PreRunE: httpCommand.validate and its helpers *)

\* a parseURL that accepts whatever url.Parse accepts
parseURLErrorAnyScheme(u) ==
    IF urlParse(u).err THEN Err("validate", "failed to parse URL: missing protocol scheme", u)
    ELSE NoError

\* the error of parseURL for the raw string u, NoError when it is accepted;
\* url.Parse fails on a string that starts with ':', with "missing protocol
\* scheme", and its error quotes the string
parseURLError(u) ==
    IF urlParse(u).err THEN Err("validate", "failed to parse URL: missing protocol scheme", u)
    ELSE IF urlParse(u).Scheme \in {<<"h", "t", "t", "p">>, <<"h", "t", "t", "p", "s">>}
    THEN NoError
    ELSE IF urlParse(u).Scheme = <<>>
    THEN Err("validate", "the provided url does not include a scheme (http/https)", u)
    ELSE Err("validate", "the provided url does not include a supported scheme (http/https)", u)

\* a validateMethod without the switch
validateMethodErrorAny(m) == NoError

\* the error of validateMethod for the upper-cased method m
validateMethodError(m) ==
    IF m \in supportedMethods THEN NoError ELSE Err("validate", "unsupported HTTP method", m)

hasBody(c) == c.DataRaw # "" \/ c.DataFile # ""

\* parseHeaders' loop over cmd.Headers from index i, h the header set so far:
\* the header set, and the error of the first malformed header
RECURSIVE addHeaders(_, _, _)
addHeaders(hs, i, h) ==
    IF i > Len(hs) THEN [err |-> NoError, headers |-> h]
    ELSE IF Len(SplitN2(hs[i], headerDelimiter)) # 2
    THEN [err |-> Err("validate", "header is malformed: missing delimiter", hs[i]),
          headers |-> h]
    ELSE addHeaders(hs, i + 1,
                    HeaderAdd(h, SplitN2(hs[i], headerDelimiter)[1],
                              TrimSpace(SplitN2(hs[i], headerDelimiter)[2])))

parseHeaders(c) ==
    LET r == addHeaders(c.Headers, 1, <<>>)
    IN  IF r.err.cause # "" THEN r
        ELSE IF hasBody(c) /\ HeaderGet(r.headers, contentTypeHeader) = <<>>
        THEN [err |-> NoError, headers |-> HeaderSet(r.headers, contentTypeHeader, defaultContentType)]
        ELSE r

\* parseCookies' loop over cmd.Cookies
RECURSIVE parseCookies(_, _, _)
parseCookies(cs, i, acc) ==
    IF i > Len(cs) THEN [err |-> NoError, cookies |-> acc]
    ELSE IF ParseCookie(cs[i]).err
    THEN [err |-> Err("validate", "failed to parse cookie input", cs[i]), cookies |-> acc]
    ELSE parseCookies(cs, i + 1, Append(acc, ParseCookie(cs[i]).cookie))

\* validate: cmd.URL = args[0], then parseURL, validateMethod, parseHeaders and
\* parseCookies in this order, stopping at the first error
Validate ==
    /\ pc = "validate"
    /\ LET u  == cmd.arg
           m  == ToUpper(cmd.Method)
           ph == parseHeaders(cmd)
           pk == parseCookies(cmd.Cookies, 1, <<>>)
       IN  IF parseURLError(u).cause # ""
           THEN /\ cmd' = [cmd EXCEPT !.URL = u]
                /\ Return(parseURLError(u))
                /\ UNCHANGED <<url, headers, cookieJar>>
           ELSE IF validateMethodError(m).cause # ""
           THEN /\ cmd' = [cmd EXCEPT !.URL = u, !.Method = m]
                /\ url' = urlParse(u).Scheme
                /\ Return(validateMethodError(m))
                /\ UNCHANGED <<headers, cookieJar>>
           ELSE IF ph.err.cause # ""
           THEN /\ cmd' = [cmd EXCEPT !.URL = u, !.Method = m]
                /\ url' = urlParse(u).Scheme
                /\ headers' = ph.headers
                /\ Return(ph.err)
                /\ UNCHANGED cookieJar
           ELSE IF pk.err.cause # ""
           THEN /\ cmd' = [cmd EXCEPT !.URL = u, !.Method = m]
                /\ url' = urlParse(u).Scheme
                /\ headers' = ph.headers
                /\ Return(pk.err)
                /\ UNCHANGED cookieJar
           ELSE /\ cmd' = [cmd EXCEPT !.URL = u, !.Method = m]
                /\ url' = urlParse(u).Scheme
                /\ headers' = ph.headers
                /\ cookieJar' = [set |-> TRUE, cookies |-> pk.cookies]
                /\ pc' = "flagGroups"
                /\ UNCHANGED <<errs, res, defers>>
    /\ UNCHANGED <<io, client, timer, net, resp, copied, stderr, stdout, outfile>>
    /\ UNCHANGED <<traceVars, reach, tlsLog>>

----------------------------------------------------------------------------
(* cobra, between PreRunE and RunE: the flag groups NewHTTPCommand registers *)

\* MarkFlagsRequiredTogether
requiredTogether == {{"cert", "key"}}

\* a command that registers no mutually exclusive group
mutuallyExclusiveForgotten == {}

\* MarkFlagsMutuallyExclusive
mutuallyExclusive == {{"data", "data-file"}}

\* cobra's ValidateFlagGroups on the flags the command line set
flagGroupsError(changed) ==
    IF \E g \in requiredTogether : g \cap changed # {} /\ ~(g \subseteq changed)
    THEN Err("flags", "if any flags in the group are set they must all be set", "cert key")
    ELSE IF \E g \in mutuallyExclusive : Cardinality(g \cap changed) > 1
    THEN Err("flags", "if any flags in the group are set none of the others can be",
             "data data-file")
    ELSE NoError

ValidateFlagGroups ==
    /\ pc = "flagGroups"
    /\ IF flagGroupsError(cmd.changed).cause # ""
       THEN Return(flagGroupsError(cmd.changed))
       ELSE /\ pc' = "buildClient"
            /\ UNCHANGED <<errs, res, defers>>
    /\ UNCHANGED <<cmd, url, headers, cookieJar, io, client, timer, net, resp, copied,
                   stderr, stdout, outfile>>
    /\ UNCHANGED <<traceVars, reach, tlsLog>>

----------------------------------------------------------------------------
(* RunE: httpCommand.run *)

\* a getRootCertPool that ignores the result of AppendCertsFromPEM
getRootCertPoolUnchecked(c, sys, file) ==
    IF c.RootCertificate = ""
    THEN IF sys THEN [err |-> NoError, pool |-> "system", io |-> <<>>]
         ELSE [err |-> Err("error getting root cert pool", "system pool unavailable", ""),
               pool |-> "", io |-> <<>>]
    ELSE IF file = "unreadable"
    THEN [err |-> Err("error getting root cert pool", "read error", c.RootCertificate),
          pool |-> "", io |-> <<"read root-cert: unreadable">>]
    ELSE IF file = "nocerts"
    THEN [err |-> NoError, pool |-> "", io |-> <<"read root-cert: no certificates">>]
    ELSE [err |-> NoError, pool |-> c.RootCertificate,
          io |-> <<"read root-cert: certificates">>]

\* getRootCertPool: without --root-cert the system pool (sys: whether loading it
\* succeeded); otherwise the file is read and decoded (file: "unreadable",
\* "nocerts" when not one certificate is decoded from it, "certs")
getRootCertPool(c, sys, file) ==
    IF c.RootCertificate = ""
    THEN IF sys THEN [err |-> NoError, pool |-> "system", io |-> <<>>]
         ELSE [err |-> Err("error getting root cert pool", "system pool unavailable", ""),
               pool |-> "", io |-> <<>>]
    ELSE IF file = "unreadable"
    THEN [err |-> Err("error getting root cert pool", "read error", c.RootCertificate),
          pool |-> "", io |-> <<"read root-cert: unreadable">>]
    ELSE IF file = "nocerts"
    THEN [err |-> Err("error getting root cert pool",
                      "no root certs were successfully parsed from", c.RootCertificate),
          pool |-> "", io |-> <<"read root-cert: no certificates">>]
    ELSE [err |-> NoError, pool |-> c.RootCertificate,
          io |-> <<"read root-cert: certificates">>]

\* getTLSCertificates: no client certificate unless both paths are non-empty;
\* otherwise the pair is loaded (pair: whether tls.LoadX509KeyPair succeeded)
getTLSCertificates(c, pair) ==
    IF c.ClientCertificate = "" \/ c.ClientKey = ""
    THEN [err |-> NoError, certs |-> FALSE, io |-> <<>>]
    ELSE IF pair THEN [err |-> NoError, certs |-> TRUE, io |-> <<"read cert key">>]
    ELSE [err |-> Err("error loading tls certificates", "bad key pair", c.ClientCertificate),
          certs |-> FALSE, io |-> <<"read cert key">>]

\* buildClient: the root pool, then the client certificates, then the client
BuildClient ==
    /\ pc = "buildClient"
    /\ \E sys \in BOOLEAN, file \in {"unreadable", "nocerts", "certs"}, pair \in BOOLEAN :
         LET rp == getRootCertPool(cmd, sys, file)
             tc == getTLSCertificates(cmd, pair)
         IN  IF rp.err.cause # ""
             THEN /\ io' = io \o rp.io
                  /\ Return(rp.err)
                  /\ UNCHANGED client
             ELSE IF tc.err.cause # ""
             THEN /\ io' = io \o rp.io \o tc.io
                  /\ Return(tc.err)
                  /\ UNCHANGED client
             ELSE /\ io' = io \o rp.io \o tc.io
                  /\ client' = [built |-> TRUE, Timeout |-> cmd.Timeout,
                                RootCAs |-> rp.pool, Certificates |-> tc.certs]
                  /\ pc' = "openBody"
                  /\ UNCHANGED <<errs, res, defers>>
    /\ UNCHANGED <<cmd, url, headers, cookieJar, timer, net, resp, copied, stderr, stdout,
                   outfile>>
    /\ UNCHANGED <<traceVars, reach, tlsLog>>

\* openBody: the source of the request body (opened: whether os.Open succeeded)
openBody(c, opened) ==
    IF c.DataRaw # "" THEN [err |-> NoError, source |-> "raw", io |-> <<>>]
    ELSE IF c.DataFile = "-" THEN [err |-> NoError, source |-> "stdin", io |-> <<>>]
    ELSE IF c.DataFile # ""
    THEN IF opened THEN [err |-> NoError, source |-> "file", io |-> <<"open data-file">>]
         ELSE [err |-> Err("error opening body", "open error", c.DataFile),
               source |-> "", io |-> <<"open data-file">>]
    ELSE [err |-> NoError, source |-> "nobody", io |-> <<>>]

\* run, lines 261-265: the body is opened and its Close deferred
OpenBody ==
    /\ pc = "openBody"
    /\ \E opened \in BOOLEAN :
         LET ob == openBody(cmd, opened)
         IN  /\ io' = io \o ob.io
             /\ IF ob.err.cause # ""
                THEN Return(ob.err)
                ELSE /\ res' = [res EXCEPT !.body = "open"]
                     /\ defers' = DeferClose(defers, "body")
                     /\ pc' = "buildRequest"
                     /\ UNCHANGED errs
    /\ UNCHANGED <<cmd, url, headers, cookieJar, client, timer, net, resp, copied, stderr,
                   stdout, outfile>>
    /\ UNCHANGED <<traceVars, reach, tlsLog>>

\* run, lines 267-270: http.NewRequest either builds the request or fails
BuildRequest ==
    /\ pc = "buildRequest"
    /\ \/ /\ pc' = "do"
          /\ UNCHANGED <<errs, res, defers>>
       \/ Return(Err("error building request", "http.NewRequest failed", ""))
    /\ UNCHANGED <<cmd, url, headers, cookieJar, io, client, timer, net, resp, copied,
                   stderr, stdout, outfile>>
    /\ UNCHANGED <<traceVars, reach, tlsLog>>

----------------------------------------------------------------------------
(* client.Do, line 272: the client built by buildClient sets Timeout and no  *)
(* CheckRedirect, so net/http's default policy follows redirects; the        *)
(* Timeout's timer runs from the start of Do until the response body is      *)
(* closed, and interrupts connecting, redirects and the reading of the body. *)

IsHTTPS == url = <<"h", "t", "t", "p", "s">>

SendError(cause) == Err("error sending request", cause, "")

\* Do starts: the timer of a non-zero Timeout is armed
DoStart ==
    /\ pc = "do"
    /\ net.phase = "idle"
    /\ net' = [net EXCEPT !.phase = "connect"]
    /\ timer' = IF client.Timeout > 0 THEN "running" ELSE "off"
    /\ UNCHANGED <<cmd, url, headers, cookieJar, pc, errs, io, res, defers, client, resp,
                   copied, stderr, stdout, outfile>>
    /\ UNCHANGED <<traceVars, reach, tlsLog>>

\* the timer fires while the operation is still running
TimerExpire ==
    /\ timer = "running"
    /\ pc # "done"
    /\ timer' = "expired"
    /\ UNCHANGED <<cmd, url, headers, cookieJar, pc, errs, io, res, defers, client, net,
                   resp, copied, stderr, stdout, outfile>>
    /\ UNCHANGED <<traceVars, reach, tlsLog>>

\* one step of the round trip: dial, TLS handshake, writing the request
Transport ==
    /\ pc = "do"
    /\ net.phase \in {"connect", "tls", "write"}
    /\ IF timer = "expired"
       THEN /\ Return(SendError("Client.Timeout exceeded"))
            /\ UNCHANGED <<io, net>>
       ELSE \/ /\ net.phase = "connect"
               /\ io' = Append(io, "dial")
               /\ \/ /\ net' = [net EXCEPT !.phase = IF IsHTTPS THEN "tls" ELSE "write",
                                           !.dials = @ + 1]
                     /\ UNCHANGED <<pc, errs, res, defers>>
                  \/ /\ net' = [net EXCEPT !.dials = @ + 1]
                     /\ Return(SendError("dial failed"))
            \/ /\ net.phase = "tls"
               /\ UNCHANGED io
               /\ \/ /\ net' = [net EXCEPT !.phase = "write"]
                     /\ UNCHANGED <<pc, errs, res, defers>>
                  \/ /\ UNCHANGED net
                     /\ Return(SendError("handshake failed"))
            \/ /\ net.phase = "write"
               /\ io' = Append(io, "request")
               /\ \/ /\ net' = [net EXCEPT !.phase = "read", !.sent = @ + 1]
                     /\ UNCHANGED <<pc, errs, res, defers>>
                  \/ /\ net' = [net EXCEPT !.sent = @ + 1]
                     /\ Return(SendError("write failed"))
    /\ UNCHANGED <<cmd, url, headers, cookieJar, client, timer, resp, copied, stderr,
                   stdout, outfile>>
    /\ UNCHANGED <<traceVars, reach, tlsLog>>

\* the response headers arrive: a redirect the default policy follows sends
\* the next request; any other response is returned by Do and its body's
\* Close is deferred (run, line 276)
ReadResponse ==
    /\ pc = "do"
    /\ net.phase = "read"
    /\ IF timer = "expired"
       THEN /\ Return(SendError("Client.Timeout exceeded"))
            /\ UNCHANGED <<net, resp>>
       ELSE \/ /\ Return(SendError("read failed"))
               /\ UNCHANGED <<net, resp>>
            \/ /\ net.redirects < MaxRedirects
               /\ net' = [net EXCEPT !.phase = "connect", !.redirects = @ + 1]
               /\ UNCHANGED <<pc, errs, res, defers, resp>>
            \/ \E n \in 0..MaxBody :
                 /\ net' = [net EXCEPT !.phase = "idle"]
                 /\ resp' = [present |-> TRUE, tls |-> IsHTTPS, len |-> n]
                 /\ res' = [res EXCEPT !.resp = "open"]
                 /\ defers' = DeferClose(defers, "resp")
                 /\ pc' = "report"
                 /\ UNCHANGED errs
    /\ UNCHANGED <<cmd, url, headers, cookieJar, io, client, timer, copied, stderr, stdout,
                   outfile>>
    /\ UNCHANGED <<traceVars, reach, tlsLog>>

----------------------------------------------------------------------------
(* run, lines 278-298: reporting the response *)

\* what logTLSState and log(resp.Status) write for the flags of c
reportLines(c, r) ==
    (IF c.PrintTLSState THEN <<IF r.tls THEN "tls state" ELSE "no tls state">> ELSE <<>>)
    \o (IF c.PrintStatus THEN <<"status">> ELSE <<>>)

\* the TLS state, the status and the headers are written to os.Stderr as the
\* flags ask; writing the headers can fail
ReportResponse ==
    /\ pc = "report"
    /\ IF cmd.PrintHeaders
       THEN \/ /\ stderr' = stderr \o reportLines(cmd, resp) \o <<"headers">>
               /\ pc' = "writeOutput"
               /\ UNCHANGED <<errs, res, defers>>
            \/ /\ stderr' = stderr \o reportLines(cmd, resp)
               /\ Return(Err("failed to write response headers", "write error", ""))
       ELSE /\ stderr' = stderr \o reportLines(cmd, resp)
            /\ pc' = "writeOutput"
            /\ UNCHANGED <<errs, res, defers>>
    /\ UNCHANGED <<cmd, url, headers, cookieJar, io, client, timer, net, resp, copied,
                   stdout, outfile>>
    /\ UNCHANGED <<traceVars, reach, tlsLog>>

BodyError(cause, subject) == Err("failed to write response body", cause, subject)

\* os.Create: the file exists afterwards and is empty
Create(f) == [f EXCEPT !.exists = TRUE, !.content = <<>>]

\* writeOutput, lines 465-474: the destination of the body is os.Stdout, or the
\* file at cmd.OutputFile, created (and truncated) with its Close deferred
WriteOutput ==
    /\ pc = "writeOutput"
    /\ IF cmd.OutputFile = ""
       THEN /\ pc' = "copy"
            /\ UNCHANGED <<errs, res, defers, io, outfile>>
       ELSE /\ io' = Append(io, "create output")
            /\ \/ /\ Return(BodyError("failed to create output file", cmd.OutputFile))
                  /\ UNCHANGED outfile
               \/ /\ outfile' = Create(outfile)
                  /\ res' = [res EXCEPT !.file = "open"]
                  /\ defers' = DeferClose(defers, "file")
                  /\ pc' = "copy"
                  /\ UNCHANGED errs
    /\ UNCHANGED <<cmd, url, headers, cookieJar, client, timer, net, resp, copied, stderr,
                   stdout>>
    /\ UNCHANGED <<traceVars, reach, tlsLog>>

\* io.Copy, lines 466 and 476, one read and one write at a time: the bytes of
\* the body are 1..resp.len, chunk by chunk
Copy ==
    /\ pc = "copy"
    /\ IF timer = "expired"
       THEN /\ Return(BodyError("Client.Timeout exceeded while reading body", ""))
            /\ UNCHANGED <<copied, stdout, outfile>>
       ELSE \/ /\ Return(BodyError("read error", ""))
               /\ UNCHANGED <<copied, stdout, outfile>>
            \/ /\ copied = resp.len
               /\ Return(NoError)
               /\ UNCHANGED <<copied, stdout, outfile>>
            \/ /\ copied < resp.len
               /\ \/ /\ Return(BodyError("write error", ""))
                     /\ UNCHANGED <<copied, stdout, outfile>>
                  \/ /\ copied' = copied + 1
                     /\ IF cmd.OutputFile = ""
                        THEN /\ stdout' = Append(stdout, copied + 1)
                             /\ UNCHANGED outfile
                        ELSE /\ outfile' = [outfile EXCEPT !.content = Append(@, copied + 1)]
                             /\ UNCHANGED stdout
                     /\ UNCHANGED <<pc, errs, res, defers>>
    /\ UNCHANGED <<cmd, url, headers, cookieJar, io, client, timer, net, resp, stderr>>
    /\ UNCHANGED <<traceVars, reach, tlsLog>>

----------------------------------------------------------------------------
(* The http operation as a whole *)

Init == HTTPInit /\ TraceIdle /\ ReachOff /\ TLSLogOff

Next ==
    \/ Validate
    \/ ValidateFlagGroups
    \/ BuildClient
    \/ OpenBody
    \/ BuildRequest
    \/ DoStart
    \/ TimerExpire
    \/ Transport
    \/ ReadResponse
    \/ ReportResponse
    \/ WriteOutput
    \/ Copy

Spec == Init /\ [][Next]_vars

----------------------------------------------------------------------------
(* The httptrace operation.  RoundTrip runs on http.DefaultTransport, whose  *)
(* dialer races the address families of a dual-stack host: the goroutines    *)
(* "dial4" and "dial6" call ConnectStart and ConnectDone concurrently, and a *)
(* losing dial reports after the connection is in use.  The goroutine "conn" *)
(* stands for the chain of goroutines that resolve, shake hands, hand over   *)
(* the connection and read the response, one after the other.  A callback    *)
(* returns when its logWithDelta call returns.                               *)

\* the http operation is not running
HTTPOff ==
    /\ cmd = ParsedCommand(<<>>, {}, <<>>)
    /\ url = <<>>
    /\ headers = <<>>
    /\ cookieJar = [set |-> FALSE, cookies |-> <<>>]
    /\ pc = "off"
    /\ errs = <<>>
    /\ io = <<>>
    /\ res = NoResources
    /\ defers = <<>>
    /\ client = [built |-> FALSE, Timeout |-> 0, RootCAs |-> "", Certificates |-> FALSE]
    /\ timer = "off"
    /\ net = [phase |-> "idle", sent |-> 0, redirects |-> 0, dials |-> 0]
    /\ resp = [present |-> FALSE, tls |-> FALSE, len |-> 0]
    /\ copied = 0
    /\ stderr = <<>>
    /\ stdout = <<>>
    /\ outfile = [existed |-> FALSE, exists |-> FALSE, content |-> <<>>]

TraceInit ==
    /\ HTTPOff
    /\ ReachOff
    /\ TLSLogOff
    /\ gor = [g \in Goroutines |-> Idle]
    /\ clock = 0
    /\ out = <<>>
    /\ \E u \in URLs :
         traceNet = [phase |-> "validate", URL |-> u, https |-> FALSE, dnsErr |-> "",
                     racer |-> [r \in Racers |-> "idle"], err |-> NoError]
    /\ sched = [last |-> "", preempts |-> 0]

Msg(text, ctx, err) == [text |-> text, ctx |-> ctx, err |-> err]

\* the message of the DNSDone callback, lines 59-61: the addresses
DNSDoneMsg(addrs, err) == Msg("DNS done", addrs, "")

\* the message of the ConnectDone callback, lines 65-71
ConnectDoneMsg(network, err) ==
    IF err # "" THEN Msg("Connection failed", network, err)
    ELSE Msg("Connection done", network, "")

\* the message of the TLSHandshakeDone callback, lines 75-81
TLSHandshakeDoneMsg(err) ==
    IF err # "" THEN Msg("TLS handshake failed", "", err)
    ELSE Msg("TLS handshake complete", "", "")

\* goroutine g runs next: switching to it while the goroutine that ran last
\* is inside logWithDelta is a preemption
Run(g) ==
    IF sched.last \in {"", g} \/ gor[sched.last].step = 0
    THEN sched' = [sched EXCEPT !.last = g]
    ELSE /\ sched.preempts < MaxPreempt
         /\ sched' = [last |-> g, preempts |-> sched.preempts + 1]

\* goroutine g enters logWithDelta, line 106: delta := time.Since(start), the
\* time being t by now
Call(g, m) ==
    /\ Run(g)
    /\ \E t \in clock..MaxClock :
         /\ clock' = t
         /\ gor' = [gor EXCEPT ![g] = [step |-> 1, delta |-> t, msg |-> m]]

Network(r) == IF r = "dial4" THEN "tcp4" ELSE "tcp6"

\* httpTraceCommand.validate, lines 30-51
TraceValidate ==
    /\ traceNet.phase = "validate"
    /\ traceNet' = IF parseURLError(traceNet.URL).cause # ""
                   THEN [traceNet EXCEPT !.phase = "end", !.err = parseURLError(traceNet.URL)]
                   ELSE [traceNet EXCEPT !.phase = "run", !.https =
                            (urlParse(traceNet.URL).Scheme = <<"h", "t", "t", "p", "s">>)]
    /\ UNCHANGED <<gor, clock, out, sched>>
    /\ UNCHANGED <<httpVars, reach, tlsLog>>

\* run, lines 54-96: start is taken, the request built and handed to RoundTrip
TraceRun ==
    /\ traceNet.phase = "run"
    /\ clock' = 0
    /\ \/ traceNet' = [traceNet EXCEPT !.phase = "dns"]
       \/ traceNet' = [traceNet EXCEPT !.phase = "end",
                                       !.err = Err("error building request", "http.NewRequest failed", "")]
    /\ UNCHANGED <<gor, out, sched>>
    /\ UNCHANGED <<httpVars, reach, tlsLog>>

DNSStart ==
    /\ traceNet.phase = "dns"
    /\ gor["conn"].step = 0
    /\ Call("conn", Msg("DNS start", "h", ""))
    /\ traceNet' = [traceNet EXCEPT !.phase = "resolving"]
    /\ UNCHANGED out
    /\ UNCHANGED <<httpVars, reach, tlsLog>>

DNSDone ==
    /\ traceNet.phase = "resolving"
    /\ gor["conn"].step = 0
    /\ \/ /\ Call("conn", DNSDoneMsg("[a4 a6]", ""))
          /\ traceNet' = [traceNet EXCEPT !.phase = "dial"]
       \/ /\ Call("conn", DNSDoneMsg("[]", "no such host"))
          /\ traceNet' = [traceNet EXCEPT !.phase = "failing", !.dnsErr = "no such host"]
    /\ UNCHANGED out
    /\ UNCHANGED <<httpVars, reach, tlsLog>>

ConnectStart(r) ==
    /\ traceNet.phase = "dial"
    /\ gor["conn"].step = 0
    /\ traceNet.racer[r] = "idle"
    /\ r = "dial6" => traceNet.racer["dial4"] # "idle"
    /\ gor[r].step = 0
    /\ Call(r, Msg("Connection starting", Network(r), ""))
    /\ traceNet' = [traceNet EXCEPT !.racer[r] = "dialing"]
    /\ UNCHANGED out
    /\ UNCHANGED <<httpVars, reach, tlsLog>>

ConnectDone(r) ==
    /\ traceNet.phase # "end"
    /\ traceNet.racer[r] = "dialing"
    /\ gor[r].step = 0
    /\ \/ /\ traceNet.phase = "dial"
          /\ Call(r, ConnectDoneMsg(Network(r), ""))
          /\ traceNet' = [traceNet EXCEPT !.racer[r] = "ok"]
       \/ /\ Call(r, ConnectDoneMsg(Network(r), "dial error"))
          /\ traceNet' = [traceNet EXCEPT !.racer[r] = "failed"]
    /\ UNCHANGED out
    /\ UNCHANGED <<httpVars, reach, tlsLog>>

\* a transport that goes on without waiting for a dial
ConnectedEarly == traceNet.phase = "dial"

\* a dial succeeded and its ConnectDone callback has returned
Connected ==
    /\ traceNet.phase = "dial"
    /\ \E r \in Racers : traceNet.racer[r] = "ok" /\ gor[r].step = 0

TLSHandshakeStart ==
    /\ Connected
    /\ traceNet.https
    /\ gor["conn"].step = 0
    /\ Call("conn", Msg("TLS handshake starting", "", ""))
    /\ traceNet' = [traceNet EXCEPT !.phase = "tls"]
    /\ UNCHANGED out
    /\ UNCHANGED <<httpVars, reach, tlsLog>>

TLSHandshakeDone ==
    /\ traceNet.phase = "tls"
    /\ gor["conn"].step = 0
    /\ \/ /\ Call("conn", TLSHandshakeDoneMsg(""))
          /\ traceNet' = [traceNet EXCEPT !.phase = "secure"]
       \/ /\ Call("conn", TLSHandshakeDoneMsg("handshake error"))
          /\ traceNet' = [traceNet EXCEPT !.phase = "failing"]
    /\ UNCHANGED out
    /\ UNCHANGED <<httpVars, reach, tlsLog>>

GotConn ==
    /\ \/ Connected /\ ~traceNet.https
       \/ traceNet.phase = "secure"
    /\ gor["conn"].step = 0
    /\ Call("conn", Msg("Got connection", "", ""))
    /\ traceNet' = [traceNet EXCEPT !.phase = "conn"]
    /\ UNCHANGED out
    /\ UNCHANGED <<httpVars, reach, tlsLog>>

GotFirstResponseByte ==
    /\ traceNet.phase = "conn"
    /\ gor["conn"].step = 0
    /\ Call("conn", Msg("Got first response byte", "", ""))
    /\ traceNet' = [traceNet EXCEPT !.phase = "byte"]
    /\ UNCHANGED out
    /\ UNCHANGED <<httpVars, reach, tlsLog>>

\* logWithDelta, lines 105-110, after delta is taken: the three fmt calls, each
\* one write to os.Stdout
LogStep(g) ==
    /\ traceNet.phase # "end"
    /\ gor[g].step \in 1..3
    /\ Run(g)
    /\ out' = Append(out, [kind |-> CASE gor[g].step = 1 -> "prefix"
                                      [] gor[g].step = 2 -> "message"
                                      [] OTHER -> "newline",
                           g |-> g, delta |-> gor[g].delta, msg |-> gor[g].msg])
    /\ gor' = [gor EXCEPT ![g] = IF @.step = 3 THEN Idle ELSE [@ EXCEPT !.step = @ + 1]]
    /\ UNCHANGED <<clock, traceNet>>
    /\ UNCHANGED <<httpVars, reach, tlsLog>>

\* RoundTrip returns, lines 96-102: with the response once its first byte is
\* read, with an error when resolving, every dial, the handshake or the
\* exchange failed; run returns and the process ends
RoundTripReturns ==
    /\ gor["conn"].step = 0
    /\ \/ /\ traceNet.phase = "byte"
          /\ traceNet' = [traceNet EXCEPT !.phase = "end"]
       \/ /\ \/ traceNet.phase \in {"failing", "conn"}
             \/ /\ traceNet.phase = "dial"
                /\ \A r \in Racers : traceNet.racer[r] = "failed" /\ gor[r].step = 0
          /\ traceNet' = [traceNet EXCEPT !.phase = "end",
                                          !.err = Err("error sending request", "RoundTrip failed", "")]
    /\ UNCHANGED <<gor, clock, out, sched>>
    /\ UNCHANGED <<httpVars, reach, tlsLog>>

TraceNext ==
    \/ TraceValidate
    \/ TraceRun
    \/ DNSStart
    \/ DNSDone
    \/ \E r \in Racers : ConnectStart(r)
    \/ \E r \in Racers : ConnectDone(r)
    \/ TLSHandshakeStart
    \/ TLSHandshakeDone
    \/ GotConn
    \/ GotFirstResponseByte
    \/ \E g \in Goroutines : LogStep(g)
    \/ RoundTripReturns

TraceSpec == TraceInit /\ [][TraceNext]_vars

----------------------------------------------------------------------------
(* The reachable operation: validate (PreRunE), then run                     *)

AddrChars == {"h", "8", ":", "[", "]"}

Addresses == UNION { [1..n -> AddrChars] : n \in 0..MaxAddr }

\* index of the last occurrence of character d in s, 0 when there is none
LastIndex(s, d) ==
    IF \E i \in 1..Len(s) : s[i] = d
    THEN CHOOSE i \in 1..Len(s) : s[i] = d /\ \A j \in (i + 1)..Len(s) : s[j] # d
    ELSE 0

Contains(s, d) == Index(s, d) # 0

\* net.SplitHostPort: the port starts after the last colon; a host in
\* brackets ends at the first ']', which must be just before that colon
SplitHostPort(a) ==
    LET i     == LastIndex(a, ":")
        end   == Index(a, "]")
        fail(why) == [host |-> <<>>, port |-> <<>>, err |-> why]
        rest(host, j, k) ==
            IF Contains(SubSeq(a, j + 1, Len(a)), "[") THEN fail("unexpected '[' in address")
            ELSE IF Contains(SubSeq(a, k + 1, Len(a)), "]") THEN fail("unexpected ']' in address")
            ELSE [host |-> host, port |-> SubSeq(a, i + 1, Len(a)), err |-> ""]
    IN  IF i = 0 THEN fail("missing port in address")
        ELSE IF a[1] = "["
        THEN IF end = 0 THEN fail("missing ']' in address")
             ELSE IF end = Len(a) THEN fail("missing port in address")
             ELSE IF end + 1 = i THEN rest(SubSeq(a, 2, end - 1), 1, end)
             ELSE IF a[end + 1] = ":" THEN fail("too many colons in address")
             ELSE fail("missing port in address")
        ELSE IF Contains(SubSeq(a, 1, i - 1), ":") THEN fail("too many colons in address")
        ELSE rest(SubSeq(a, 1, i - 1), 0, 0)

\* a validateAddress that takes whatever net.SplitHostPort splits
validateAddressUnchecked(a) == SplitHostPort(a).err

\* validateAddress: the error of SplitHostPort, else "missing port" for an
\* empty port, else "missing host" for an empty host, else no error
validateAddress(a) ==
    IF SplitHostPort(a).err # "" THEN SplitHostPort(a).err
    ELSE IF SplitHostPort(a).port = <<>> THEN "missing port"
    ELSE IF SplitHostPort(a).host = <<>> THEN "missing host"
    ELSE ""

ReachInit ==
    /\ HTTPOff
    /\ TraceIdle
    /\ TLSLogOff
    /\ \E a \in Addresses :
         reach = [pc |-> "validate", Address |-> a, err |-> NoError, dialed |-> FALSE,
                  conn |-> "none", out |-> <<>>]

\* reachableCommand.validate
ReachValidate ==
    /\ reach.pc = "validate"
    /\ reach' = IF validateAddress(reach.Address) # ""
                THEN [reach EXCEPT !.pc = "done",
                         !.err = Err("the provided address is invalid",
                                     validateAddress(reach.Address), reach.Address)]
                ELSE [reach EXCEPT !.pc = "run"]
    /\ UNCHANGED <<httpVars, traceVars, tlsLog>>

\* run up to the dial: the address is printed and dialed
ReachDial ==
    /\ reach.pc = "run"
    /\ \/ reach' = [reach EXCEPT !.pc = "connected", !.dialed = TRUE, !.conn = "open",
                                 !.out = Append(@, "Connecting to")]
       \/ reach' = [reach EXCEPT !.pc = "done", !.dialed = TRUE,
                                 !.out = Append(@, "Connecting to"),
                                 !.err = Err("error dialing address", "dial error", reach.Address)]
    /\ UNCHANGED <<httpVars, traceVars, tlsLog>>

\* run after the dial: the connection is closed
ReachClose ==
    /\ reach.pc = "connected"
    /\ \/ reach' = [reach EXCEPT !.pc = "done", !.conn = "closed",
                                 !.out = @ \o <<"Connection succeeded", "Connection closed">>]
       \/ reach' = [reach EXCEPT !.pc = "done", !.conn = "closed",
                                 !.out = Append(@, "Connection succeeded"),
                                 !.err = Err("error closing the connection", "close error", "")]
    /\ UNCHANGED <<httpVars, traceVars, tlsLog>>

ReachNext ==
    \/ ReachValidate
    \/ ReachDial
    \/ ReachClose

ReachSpec == ReachInit /\ [][ReachNext]_vars

----------------------------------------------------------------------------
(* logTLSState, lines 480-504, on its own: the connection state is nil or    *)
(* has a chain of peer certificates, each of which certinfo can render as    *)
(* text ("ok") or not ("bad")                                                *)

Chains == UNION { [1..n -> {"ok", "bad"}] : n \in 0..MaxChain }

\* one line written by cmd.log or cmd.logf: what it says, and for a line about
\* a certificate the number printed with it or its position in the chain
Line(kind, n, short) == [kind |-> kind, n |-> n, short |-> short]

TLSLogInit ==
    /\ HTTPOff
    /\ TraceIdle
    /\ ReachOff
    /\ \E st \in {NoState} \cup {[nil |-> FALSE, PeerCertificates |-> c] : c \in Chains},
          sh \in BOOLEAN :
         tlsLog = [pc |-> "start", state |-> st, short |-> sh, i |-> 0, log |-> <<>>]

\* lines 481-494: nothing but a note for a nil state, else the four lines
\* about the connection
LogTLSHead ==
    /\ tlsLog.pc = "start"
    /\ tlsLog' = IF tlsLog.state.nil
                 THEN [tlsLog EXCEPT !.pc = "done",
                          !.log = <<Line("No TLS connection state is available", 0, FALSE)>>]
                 ELSE [tlsLog EXCEPT !.pc = "loop",
                          !.log = << Line("TLS Version:", 0, FALSE),
                                     Line("Cipher Suite:", 0, FALSE),
                                     Line("Negotiated Protocol (ALPN):", 0, FALSE),
                                     Line("Server Name:", 0, FALSE) >>]
    /\ UNCHANGED <<httpVars, traceVars, reach>>

\* a loop body that gives up at the first certificate it cannot render
renderCertificateOrStop(chain, i, short) ==
    IF chain[i + 1] = "bad"
    THEN [lines |-> <<Line("Peer Certificate #", i, FALSE),
                      Line("Failed to parse certificate", i, FALSE)>>,
          next  |-> Len(chain)]
    ELSE [lines |-> <<Line("Peer Certificate #", i, FALSE), Line("text", i, short)>>,
          next  |-> i + 1]

\* lines 495-503, the loop body for the certificate at 0-based index i: the
\* lines it logs and the index the loop goes on with
renderCertificate(chain, i, short) ==
    IF chain[i + 1] = "bad"
    THEN [lines |-> <<Line("Peer Certificate #", i, FALSE),
                      Line("Failed to parse certificate", i, FALSE)>>,
          next  |-> i + 1]
    ELSE [lines |-> <<Line("Peer Certificate #", i, FALSE), Line("text", i, short)>>,
          next  |-> i + 1]

\* one iteration of the range loop
LogTLSCertificate ==
    /\ tlsLog.pc = "loop"
    /\ tlsLog.i < Len(tlsLog.state.PeerCertificates)
    /\ LET r == renderCertificate(tlsLog.state.PeerCertificates, tlsLog.i, tlsLog.short)
       IN  tlsLog' = [tlsLog EXCEPT !.i = r.next, !.log = @ \o r.lines]
    /\ UNCHANGED <<httpVars, traceVars, reach>>

\* the range loop is over and logTLSState returns
LogTLSReturn ==
    /\ tlsLog.pc = "loop"
    /\ tlsLog.i >= Len(tlsLog.state.PeerCertificates)
    /\ tlsLog' = [tlsLog EXCEPT !.pc = "done"]
    /\ UNCHANGED <<httpVars, traceVars, reach>>

TLSLogNext ==
    \/ LogTLSHead
    \/ LogTLSCertificate
    \/ LogTLSReturn

TLSLogSpec == TLSLogInit /\ [][TLSLogNext]_vars

----------------------------------------------------------------------------
(* Properties of the http operation, checked under Spec *)

Done == pc = "done"

Has(seq, x) == \E i \in 1..Len(seq) : seq[i] = x

\* the bytes of the response body
Body == [i \in 1..resp.len |-> i]

IsStrictPrefix(a, b) == Len(a) < Len(b) /\ a = SubSeq(b, 1, Len(a))

\* a byte of the response body is in the sequence c
HoldsBodyByte(c) == \E i \in 1..Len(c) : c[i] > 0

\* C1: when the timeout of a run with a non-zero timeout expired before the
\* run ended, the run ends with exactly one error and nothing of the response
\* was reported: nothing on os.Stderr, no body byte on os.Stdout or in the
\* output file.
C1_TimeoutReportsNothing ==
    (Done /\ timer = "expired") =>
        /\ Len(errs) = 1
        /\ stderr = <<>>
        /\ stdout = <<>>
        /\ ~HoldsBodyByte(outfile.content)

\* C2: when the run has returned, every resource it acquired is closed and
\* none it did not acquire was closed: the response body exactly when Do
\* returned a response, the data file exactly when os.Open succeeded, the
\* output file exactly when os.Create succeeded.
C2_ResourcesReleased ==
    Done =>
        /\ \A r \in {"body", "resp", "file"} : res[r] \in {"none", "closed"}
        /\ resp.present <=> res.resp = "closed"
        /\ Has(io, "open data-file") =>
              (res.body = "closed" <=> \A i \in 1..Len(errs) : errs[i].cause # "open error")
        /\ Has(io, "create output") =>
              (res.file = "closed" <=>
                 \A i \in 1..Len(errs) : errs[i].cause # "failed to create output file")
        /\ res.resp = "closed" => res.body = "closed"
        /\ res.file = "closed" => res.resp = "closed"

\* a run that failed after it had acquired all three resources
C2_Witness ==
    Done /\ Len(errs) = 1 /\ res = [body |-> "closed", resp |-> "closed", file |-> "closed"]

\* C3: a run sends at most one request, and the response it reports is the
\* response to its one request.
C3_ExactlyOneRequest ==
    /\ net.sent <= 1
    /\ resp.present => net.sent = 1

\* C7: after a failing run that was to write the body to a file, the file
\* holds neither a strict prefix of the body nor a truncated version of what
\* it held before.
C7_NoPartialOutputFile ==
    (Done /\ Len(errs) > 0 /\ cmd.OutputFile # "") =>
        /\ ~(outfile.exists /\ resp.present /\ Has(io, "create output")
             /\ ~outfile.existed /\ IsStrictPrefix(outfile.content, Body))
        /\ outfile.existed => outfile.content = PreviousContent

\* C8: an invocation with both raw data and a data file never gets past the
\* checks before RunE: it ends with one configuration error, and no file was
\* read or opened, no client built, no resource acquired, no connection
\* dialed and no request sent.
C8_DataAndDataFileRejected ==
    (cmd.DataRaw # "" /\ cmd.DataFile # "") =>
        /\ pc \in {"validate", "flagGroups", "done"}
        /\ Done => Len(errs) = 1 /\ errs[1].stage \in {"validate", "flags"}
        /\ io = <<>>
        /\ ~client.built
        /\ res = NoResources
        /\ net.dials = 0 /\ net.sent = 0

\* an invocation with both that validate accepted and the flag group rejected
C8_Witness ==
    /\ cmd.DataRaw # "" /\ cmd.DataFile # ""
    /\ Done
    /\ errs[1].cause = "if any flags in the group are set none of the others can be"

\* C9: an invocation with exactly one of the client certificate path and the
\* client key path never builds a client and does no I/O; it ends with an error.
C9_HalfIdentityRejected ==
    ((cmd.ClientCertificate # "") # (cmd.ClientKey # "")) =>
        /\ ~client.built
        /\ io = <<>>
        /\ Done => Len(errs) = 1

\* C10: when the file at --root-cert was read and no certificate was decoded
\* from it, the run has ended with the one error "no root certs were
\* successfully parsed from" naming that path, that read is the only I/O it
\* did, no client was built, no body source opened and nothing dialed or sent;
\* and a client built with --root-cert trusts the certificates of that file.
C10_NoRootCertsIsAnError ==
    /\ Has(io, "read root-cert: no certificates") =>
          /\ Done
          /\ Len(errs) = 1
          /\ errs[1].cause = "no root certs were successfully parsed from"
          /\ errs[1].subject = cmd.RootCertificate
          /\ io = <<"read root-cert: no certificates">>
          /\ ~client.built
          /\ res.body = "none"
          /\ net.dials = 0 /\ net.sent = 0
    /\ (client.built /\ cmd.RootCertificate # "") => client.RootCAs = cmd.RootCertificate

\* a run whose root file held no certificate
C10_Witness ==
    /\ Done
    /\ cmd.RootCertificate # ""
    /\ Has(io, "read root-cert: no certificates")
    /\ Len(errs) = 1

----------------------------------------------------------------------------
(* Properties of the httptrace operation, checked under TraceSpec *)

NextKind(k) == CASE k = "prefix" -> "message" [] k = "message" -> "newline" [] OTHER -> "prefix"

\* C4: in the output every event's elapsed-time prefix, message and line
\* terminator are contiguous: what follows a prefix or a message is the next
\* part of the same call, and what follows a line terminator is a prefix.
C4_LinesAreContiguous ==
    \A i \in 1..(Len(out) - 1) :
        /\ out[i + 1].kind = NextKind(out[i].kind)
        /\ out[i].kind # "newline" => out[i + 1].g = out[i].g /\ out[i + 1].msg = out[i].msg

\* C5: the elapsed values of the prefixes are non-decreasing in output order.
C5_PrefixesNonDecreasing ==
    \A i, j \in 1..Len(out) :
        (i < j /\ out[i].kind = "prefix" /\ out[j].kind = "prefix") =>
            out[i].delta <= out[j].delta

\* C6: once resolution has finished and its callback returned, a DNS done
\* message is in the output, and when resolution failed that message carries
\* the error.
C6_DNSDoneCarriesFailure ==
    /\ (traceNet.phase \in {"dial", "failing", "tls", "secure", "conn", "byte"}
        /\ gor["conn"].step = 0) =>
          \E i \in 1..Len(out) : out[i].kind = "message" /\ out[i].msg.text = "DNS done"
    /\ \A i \in 1..Len(out) :
          (out[i].kind = "message" /\ out[i].msg.text = "DNS done" /\ traceNet.dnsErr # "") =>
              out[i].msg.err = traceNet.dnsErr

----------------------------------------------------------------------------
(* Header assembly *)

\* validate reached parseHeaders: it has run and neither parseURL nor
\* validateMethod stopped it
HeadersAssembled ==
    /\ pc \notin {"validate", "off"}
    /\ \A i \in 1..Len(errs) :
         errs[i].cause \notin
           { "failed to parse URL: missing protocol scheme",
             "the provided url does not include a scheme (http/https)",
             "the provided url does not include a supported scheme (http/https)",
             "unsupported HTTP method" }

\* what is left and right of the first ':' of a raw header
LeftOf(h) == SubSeq(h, 1, Index(h, ":") - 1)

RightOf(h) == SubSeq(h, Index(h, ":") + 1, Len(h))

\* the raw headers without a ':'
Malformed(hs) == {i \in 1..Len(hs) : Index(hs[i], ":") = 0}

WellFormed == HeadersAssembled /\ Malformed(cmd.Headers) = {}

\* the trimmed values supplied under the name n, in the order supplied
RECURSIVE SuppliedValues(_, _, _)
SuppliedValues(hs, n, i) ==
    IF i > Len(hs) THEN <<>>
    ELSE IF LeftOf(hs[i]) = n
    THEN <<TrimSpace(RightOf(hs[i]))>> \o SuppliedValues(hs, n, i + 1)
    ELSE SuppliedValues(hs, n, i + 1)

\* the raw headers whose name is Content-Type in any letter case
UserContentType(hs) ==
    {i \in 1..Len(hs) : ToLower(LeftOf(hs[i])) = ToLower(contentTypeHeader)}

\* C11: a raw header without ':' makes assembly fail with one error naming
\* that string; otherwise every raw header is stored under the name left of
\* its first ':' exactly as supplied, with the trimmed right-hand side as value.
C11_HeaderStoredAsSupplied ==
    HeadersAssembled =>
        LET hs == cmd.Headers
            bad == Malformed(hs)
        IN  IF bad # {}
            THEN /\ Len(errs) = 1
                 /\ errs[1].cause = "header is malformed: missing delimiter"
                 /\ errs[1].subject = hs[CHOOSE i \in bad : \A j \in bad : i <= j]
            ELSE \A i \in 1..Len(hs) :
                   \E j \in 1..Len(headers) :
                     headers[j] = <<LeftOf(hs[i]), TrimSpace(RightOf(hs[i]))>>

\* C12: after assembly of well-formed headers, the values stored under every
\* name the user supplied are the values supplied under that very name, all
\* of them, in the order supplied.
C12_ValuesKeptPerName ==
    WellFormed =>
        \A i \in 1..Len(cmd.Headers) :
            HeaderValues(headers, LeftOf(cmd.Headers[i]))
              = SuppliedValues(cmd.Headers, LeftOf(cmd.Headers[i]), 1)

\* C13: after assembly of well-formed headers, Content-Type: text/plain has
\* been added exactly when the request has a body and the user supplied no
\* Content-Type; every Content-Type the user supplied is still there with its
\* value, and every stored header is the default or one the user supplied.
C13_OnlyDefaultContentTypeAdded ==
    WellFormed =>
        LET hs      == cmd.Headers
            default == hasBody(cmd) /\ UserContentType(hs) = {}
            Same(j, i) == /\ ToLower(headers[j][1]) = ToLower(LeftOf(hs[i]))
                          /\ headers[j][2] = TrimSpace(RightOf(hs[i]))
        IN  /\ Len(headers) = Len(hs) + (IF default THEN 1 ELSE 0)
            /\ default => \E j \in 1..Len(headers) :
                            headers[j] = <<contentTypeHeader, defaultContentType>>
            /\ \A i \in UserContentType(hs) : \E j \in 1..Len(headers) : Same(j, i)
            /\ \A j \in 1..Len(headers) :
                 \/ default /\ headers[j] = <<contentTypeHeader, defaultContentType>>
                 \/ \E i \in 1..Len(hs) : Same(j, i)

----------------------------------------------------------------------------
(* URL validation *)

\* the text in front of the first ':' of the argument, as the user typed it
TypedScheme == IF Index(cmd.arg, ":") = 0 THEN <<>> ELSE LeftOf(cmd.arg)

HTTPSchemes == {<<"h", "t", "t", "p">>, <<"h", "t", "t", "p", "s">>}

MissingSchemeReports ==
    { "failed to parse URL: missing protocol scheme",
      "the provided url does not include a scheme (http/https)" }

\* the run ended in parseURL: one error naming the argument verbatim, of the
\* class the scheme sch calls for, and nothing was read, opened or sent
RejectedForScheme(sch) ==
    /\ pc = "done"
    /\ Len(errs) = 1
    /\ errs[1].subject = cmd.arg
    /\ IF sch = <<>>
       THEN errs[1].cause \in MissingSchemeReports
       ELSE errs[1].cause = "the provided url does not include a supported scheme (http/https)"
    /\ io = <<>> /\ net.dials = 0 /\ net.sent = 0 /\ ~client.built

----------------------------------------------------------------------------
(* Address validation of reachable, checked under ReachSpec *)

ColonCount(a) == Cardinality({i \in 1..Len(a) : a[i] = ":"})

\* an address of no other form than host:port: one colon at most, no brackets
Plain(a) == ColonCount(a) <= 1 /\ ~Contains(a, "[") /\ ~Contains(a, "]")

\* nothing follows the last colon, or there is no colon at all
LacksPort(a) == LastIndex(a, ":") \in {0, Len(a)}

\* nothing precedes the last colon
LacksHost(a) == LastIndex(a, ":") = 1

MissingPortReports == {"missing port", "missing port in address"}

ReachValidated == reach.pc \notin {"off", "validate"}

\* validation succeeded only for an address with host and port, and an
\* address that failed validation was not dialed
OnlyValidDialed ==
    /\ reach.err.stage # "the provided address is invalid"
         => ~LacksPort(reach.Address) /\ ~LacksHost(reach.Address)
    /\ reach.err.stage = "the provided address is invalid"
         => ~reach.dialed /\ reach.out = <<>> /\ reach.pc = "done"

\* C15 as stated: every address lacking a port fails as "missing port", every
\* address lacking a host fails as "missing host", validation succeeds only
\* with both, and a failing address is never dialed.
C15_MissingPartClassified ==
    ReachValidated =>
        /\ LacksPort(reach.Address) =>
             /\ reach.err.stage = "the provided address is invalid"
             /\ reach.err.cause \in MissingPortReports
        /\ LacksHost(reach.Address) =>
             /\ reach.err.stage = "the provided address is invalid"
             /\ reach.err.cause = "missing host"
        /\ OnlyValidDialed

\* C15, amended: for an address of the plain form, a missing port is reported
\* as "missing port", and a missing host as "missing host" when the port is
\* there; validation succeeds only with both, and a failing address is never
\* dialed.
C15_PlainAddressClassified ==
    ReachValidated =>
        /\ (Plain(reach.Address) /\ LacksPort(reach.Address)) =>
             /\ reach.err.stage = "the provided address is invalid"
             /\ reach.err.cause \in MissingPortReports
        /\ (Plain(reach.Address) /\ LacksHost(reach.Address) /\ ~LacksPort(reach.Address)) =>
             /\ reach.err.stage = "the provided address is invalid"
             /\ reach.err.cause = "missing host"
        /\ OnlyValidDialed

\* ":8" was rejected for its missing host, and not dialed
C15_Witness ==
    /\ reach.Address = <<":", "8">>
    /\ reach.pc = "done"
    /\ reach.err.cause = "missing host"
    /\ ~reach.dialed

----------------------------------------------------------------------------
(* Method validation, checked under Spec *)

AllowList ==
    { <<"G", "E", "T">>, <<"H", "E", "A", "D">>, <<"P", "U", "T">>, <<"P", "O", "S", "T">>,
      <<"P", "A", "T", "C", "H">>, <<"D", "E", "L", "E", "T", "E">> }

\* validate reached validateMethod
MethodValidated ==
    /\ pc \notin {"validate", "off"}
    /\ \A i \in 1..Len(errs) :
         errs[i].cause \notin MissingSchemeReports
           \cup {"the provided url does not include a supported scheme (http/https)"}

MethodRejected ==
    /\ pc = "done"
    /\ Len(errs) = 1
    /\ errs[1].cause = "unsupported HTTP method"

RequestBuilt == pc \in {"do", "report", "writeOutput", "copy"} \/ net.sent > 0

\* C16: the method given is accepted exactly when its upper-cased form is on
\* the allow list, it is that upper-cased form from then on, every other
\* method fails validation as unsupported, and a request is only ever built
\* with a method of the list.
C16_MethodOnAllowList ==
    /\ MethodValidated =>
         IF ToUpper(cmd.method) \in AllowList
         THEN ~MethodRejected /\ cmd.Method = ToUpper(cmd.method)
         ELSE MethodRejected /\ io = <<>> /\ net.sent = 0
    /\ RequestBuilt => cmd.Method \in AllowList

\* a request was sent for --method Post, as POST
C16_Witness ==
    /\ cmd.method = <<"P", "o", "s", "t">>
    /\ cmd.Method = <<"P", "O", "S", "T">>
    /\ net.sent > 0

----------------------------------------------------------------------------
(* Order of the trace events, checked under TraceSpec *)

\* position i of the output holds the message of an event
Emitted(i) == out[i].kind = "message"

\* a message with one of the texts T, and the context c when c is not "",
\* was emitted before position i
Before(i, T, c) ==
    \E j \in 1..(i - 1) :
        Emitted(j) /\ out[j].msg.text \in T /\ (c # "" => out[j].msg.ctx = c)

\* the place of an event in the order dns-start ... first-byte
Rank(text) ==
    CASE text = "DNS start" -> 1
      [] text = "DNS done" -> 2
      [] text = "Connection starting" -> 3
      [] text \in {"Connection done", "Connection failed"} -> 4
      [] text = "TLS handshake starting" -> 5
      [] text \in {"TLS handshake complete", "TLS handshake failed"} -> 6
      [] text = "Got connection" -> 7
      [] OTHER -> 8

\* C17: for an https URL, every event is emitted after the events listed
\* before it: a done event after its start, a connect after the resolution,
\* the handshake after a successful connect, got-connection after the
\* handshake and first-byte after got-connection; the events of one dial are
\* in order, and so are the events of the connection that is used.  The
\* output only grows at its end, so the property is stated of the message
\* written last, in every state.
C17_EventsInOrder ==
    (traceNet.https /\ out # <<>> /\ Emitted(Len(out))) =>
        LET n == Len(out)
            t == out[n].msg.text
        IN  /\ t = "DNS done" => Before(n, {"DNS start"}, "")
            /\ t = "Connection starting" => Before(n, {"DNS done"}, "")
            /\ t \in {"Connection done", "Connection failed"}
                 => Before(n, {"Connection starting"}, out[n].msg.ctx)
            /\ t = "TLS handshake starting" => Before(n, {"Connection done"}, "")
            /\ t \in {"TLS handshake complete", "TLS handshake failed"}
                 => Before(n, {"TLS handshake starting"}, "")
            /\ t = "Got connection" => Before(n, {"TLS handshake complete"}, "")
            /\ t = "Got first response byte" => Before(n, {"Got connection"}, "")
            /\ \A i \in 1..(n - 1) :
                 (Emitted(i) /\ out[i].g = out[n].g) => Rank(out[i].msg.text) < Rank(t)

\* an https trace that got as far as the first response byte
C17_Witness ==
    /\ traceNet.https
    /\ \E i \in 1..Len(out) : Emitted(i) /\ out[i].msg.text = "Got first response byte"
    /\ \E i \in 1..Len(out) : Emitted(i) /\ out[i].msg.text = "TLS handshake complete"

----------------------------------------------------------------------------
(* Order of the stages of the http operation, checked under Spec *)

\* the stage an error comes from: 1 URL, 2 method, 3 headers, 4 cookies,
\* 5 cobra's flag groups, 6 client, 7 body source, 8 request, 9 sending,
\* 10 response inspection, 11 body output
ErrStage(e) ==
    CASE e.cause \in MissingSchemeReports
           \cup {"the provided url does not include a supported scheme (http/https)"} -> 1
      [] e.cause = "unsupported HTTP method" -> 2
      [] e.cause = "header is malformed: missing delimiter" -> 3
      [] e.cause = "failed to parse cookie input" -> 4
      [] e.stage = "flags" -> 5
      [] e.stage \in {"error getting root cert pool", "error loading tls certificates"} -> 6
      [] e.stage = "error opening body" -> 7
      [] e.stage = "error building request" -> 8
      [] e.stage = "error sending request" -> 9
      [] e.stage = "failed to write response headers" -> 10
      [] OTHER -> 11

\* the last stage that has started
Reached ==
    IF errs # <<>> THEN ErrStage(errs[1])
    ELSE CASE pc = "validate" -> 0
           [] pc = "flagGroups" -> 4
           [] pc = "buildClient" -> 5
           [] pc = "openBody" -> 6
           [] pc = "buildRequest" -> 7
           [] pc = "do" -> IF timer # "off" \/ net.phase # "idle" THEN 9 ELSE 8
           [] pc = "report" -> 9
           [] pc = "writeOutput" -> 10
           [] OTHER -> 11

IOStage(x) ==
    CASE x \in {"read root-cert: unreadable", "read root-cert: no certificates",
                "read root-cert: certificates", "read cert key"} -> 6
      [] x = "open data-file" -> 7
      [] x \in {"dial", "request"} -> 9
      [] OTHER -> 11

\* C18: the stages run in the fixed order; a stage has left its mark only if
\* the run reached it, a stage was reached only if every stage before it
\* succeeded, the one error ends the run, and nothing goes to the network
\* unless validation, assembly and the client succeeded.
C18_StagesInOrder ==
    pc # "off" =>
        /\ Len(errs) <= 1
        /\ errs # <<>> => pc = "done"
        /\ cmd.Method # cmd.method => Reached >= 2
        /\ headers # <<>> => Reached >= 3
        /\ cookieJar.set => Reached >= 4
        /\ (io # <<>> \/ client.built) => Reached >= 6
        /\ res.body # "none" => Reached >= 7
        /\ (net.dials > 0 \/ net.sent > 0 \/ timer # "off") => Reached >= 9
        /\ stderr # <<>> => Reached >= 10
        /\ (stdout # <<>> \/ copied > 0 \/ res.file # "none") => Reached >= 11
        /\ \A i \in 1..Len(io) : IOStage(io[i]) <= Reached
        /\ \A i, j \in 1..Len(io) : i < j => IOStage(io[i]) <= IOStage(io[j])
        /\ Reached >= 5 =>
             /\ ToLower(TypedScheme) \in HTTPSchemes
             /\ cmd.Method \in AllowList
             /\ Malformed(cmd.Headers) = {}
             /\ cookieJar.set
        /\ Reached >= 7 => client.built
        /\ Reached >= 8 => res.body # "none"
        /\ Reached >= 10 => resp.present /\ net.sent > 0
        /\ (net.dials > 0 \/ net.sent > 0) => cookieJar.set /\ client.built

\* a run that failed in its last stage, after all the others
C18_Witness ==
    /\ pc = "done"
    /\ errs # <<>>
    /\ ErrStage(errs[1]) = 11
    /\ Has(io, "read root-cert: certificates")
    /\ Has(io, "create output")

----------------------------------------------------------------------------
(* Rendering of the peer certificates, checked under TLSLogSpec *)

\* the lines about certificates: what follows the four lines about the
\* connection
CertLines == SubSeq(tlsLog.log, 5, Len(tlsLog.log))

\* the two lines of the entry of the certificate at position k of the chain
EntryOf(k) ==
    << Line("Peer Certificate #", k - 1, FALSE),
       IF tlsLog.state.PeerCertificates[k] = "ok" THEN Line("text", k - 1, tlsLog.short)
       ELSE Line("Failed to parse certificate", k - 1, FALSE) >>

\* C19: when logTLSState has returned for a chain, the lines about
\* certificates are one entry per certificate, in chain order: the text of a
\* certificate that decodes, the note for one that does not, and nothing else.
C19_EveryCertificateRendered ==
    (tlsLog.pc = "done" /\ ~tlsLog.state.nil) =>
        /\ Len(CertLines) = 2 * Len(tlsLog.state.PeerCertificates)
        /\ \A k \in 1..Len(tlsLog.state.PeerCertificates) :
             SubSeq(CertLines, 2 * k - 1, 2 * k) = EntryOf(k)

\* a chain whose first certificate does not decode and whose last one does
C19_Witness ==
    /\ tlsLog.pc = "done"
    /\ ~tlsLog.state.nil
    /\ Len(tlsLog.state.PeerCertificates) >= 3
    /\ tlsLog.state.PeerCertificates[1] = "bad"
    /\ tlsLog.state.PeerCertificates[Len(tlsLog.state.PeerCertificates)] = "ok"

============================================================================
